---------------------------- MODULE Spec2Model ----------------------------
(***************************************************************************)
(* Lazy guild member lists of litecord (litecord/pubsub/lazy_guild.py):    *)
(* the registry LazyGuildDispatcher, the per-channel GuildMemberList, its  *)
(* lazily built MemberList and the operations dispatched to sessions.      *)
(*                                                                         *)
(* Every coroutine is cut at its awaits: one action is the code that runs  *)
(* between two suspension points, and pc[t] names the await task t is      *)
(* suspended at.  Python values are encoded as follows:                    *)
(*   None / a value      <<>> / <<v>>                                      *)
(*   str (names)         a sequence of code points, compared as Python     *)
(*                       compares str (lexicographically by code point)    *)
(*   role and group ids  strings ("r1", "online", "offline")               *)
(*   user ids            naturals                                          *)
(*   dict                a sequence of entries in insertion order          *)
(***************************************************************************)
EXTENDS Integers, Sequences, FiniteSets, TLC

(***************************************************************************)
(* Bounds of the model.                                                    *)
(***************************************************************************)
NMembers == 3
MaxCalls == 3
MaxRangeEnd == 6
MaxGmls == 2

(***************************************************************************)
(* Generic helpers.                                                        *)
(***************************************************************************)
None == <<>>
Some(v) == <<v>>
IsNone(x) == x = <<>>
Val(x) == x[1]

ToSet(s) == {s[i] : i \in 1..Len(s)}

\* Python's < on two str (or on two int keys wrapped as one-element
\* sequences): lexicographic by code point, a proper prefix is smaller.
SeqLess(a, b) ==
    \E k \in 1..(Len(a) + 1) :
        /\ \A j \in 1..(k - 1) : j <= Len(b) /\ a[j] = b[j]
        /\ k <= Len(b)
        /\ (k > Len(a) \/ a[k] < b[k])

\* list.sort(key=...) / sorted(key=...): a stable sort of [key, val] pairs.
RECURSIVE InsertByKey(_, _)
InsertByKey(s, x) ==
    IF s = <<>> THEN <<x>>
    ELSE IF SeqLess(x.key, Head(s).key) THEN <<x>> \o s
    ELSE <<Head(s)>> \o InsertByKey(Tail(s), x)

RECURSIVE SortFrom(_, _)
SortFrom(s, acc) ==
    IF s = <<>> THEN acc ELSE SortFrom(Tail(s), InsertByKey(acc, Head(s)))

StableSort(pairs) == SortFrom(pairs, <<>>)

\* dict.update(partial)
DictUpdate(d, partial) ==
    [k \in (DOMAIN d) \cup (DOMAIN partial) |->
        IF k \in DOMAIN partial THEN partial[k] ELSE d[k]]

\* Mutant of PySlice: the end of the range is taken as included.
PySliceInclusive(seq, start, end) ==
    LET lo == IF start <= Len(seq) THEN start ELSE Len(seq)
        hi == IF end + 1 <= Len(seq) THEN end + 1 ELSE Len(seq)
    IN  IF hi <= lo THEN <<>> ELSE SubSeq(seq, lo + 1, hi)

\* seq[start:end] of Python for 0 <= start, 0 <= end (0-based, end excluded,
\* both clamped to the length of the sequence).
Min(a, b) == IF a <= b THEN a ELSE b

PySlice(seq, start, end) ==
    LET lo == Min(start, Len(seq))
        hi == Min(end, Len(seq))
    IN  IF hi <= lo THEN <<>> ELSE SubSeq(seq, lo + 1, hi)

(***************************************************************************)
(* Data types of lazy_guild.py.                                            *)
(***************************************************************************)
READ_MESSAGES == 1024

\* Permissions(value).bits.read_messages
ReadMessages(perms) == (perms \div READ_MESSAGES) % 2 = 1

GroupInfo(gid, name, position, permissions) ==
    [gid |-> gid, name |-> name, position |-> position,
     permissions |-> permissions]

\* An int in a list where the code expects a GroupInfo: it has no attribute
\* gid.
RoleId(rid) == [role_id |-> rid]
HasGid(entry) == "gid" \in DOMAIN entry

MemberList(groups, group_info, data, overwrites) ==
    [groups |-> groups, group_info |-> group_info, data |-> data,
     overwrites |-> overwrites]

EmptyList == MemberList(None, None, None, None)

\* MemberList.__bool__
ListBool(list) ==
    /\ ~IsNone(list.groups)
    /\ ~IsNone(list.group_info)
    /\ ~IsNone(list.data)
    /\ ~IsNone(list.overwrites)

\* MemberList.__iter__ raises (AttributeError on an entry without gid,
\* TypeError on data None, KeyError on a group without a bucket).
IterRaises(list) ==
    /\ ~IsNone(list.groups)
    /\ \E k \in 1..Len(Val(list.groups)) :
          \/ ~HasGid(Val(list.groups)[k])
          \/ IsNone(list.data)
          \/ Val(list.groups)[k].gid \notin DOMAIN Val(list.data)

\* MemberList.__iter__: the (group, bucket) pairs in group order.
ListIter(list) ==
    IF IsNone(list.groups) \/ Val(list.groups) = <<>> THEN <<>>
    ELSE [k \in 1..Len(Val(list.groups)) |->
             [group |-> Val(list.groups)[k],
              presences |-> Val(list.data)[Val(list.groups)[k].gid]]]

\* Mutant of ToDict: every parameter is copied, whatever the operation.
ToDictAllKeys(operation) ==
    DictUpdate([op |-> operation.list_op], operation.params)

\* Operation.to_dict
ToDict(operation) ==
    LET op == operation.list_op
        params == operation.params
        base == [op |-> op]
        withItems == IF op = "SYNC"
                     THEN DictUpdate(base, [items |-> params.items])
                     ELSE base
        withRange == IF op \in {"SYNC", "INVALIDATE"}
                     THEN DictUpdate(withItems, [range |-> params.range])
                     ELSE withItems
        withIndex == IF op \in {"INSERT", "DELETE", "UPDATE"}
                     THEN DictUpdate(withRange, [index |-> params.index])
                     ELSE withRange
    IN  IF op \in {"INSERT", "UPDATE"}
        THEN DictUpdate(withIndex, [item |-> params.item])
        ELSE withIndex

Operation(list_op, params) == [list_op |-> list_op, params |-> params]

\* _to_simple_group
ToSimpleGroup(presence) ==
    IF presence.status = "offline" THEN "offline" ELSE "online"

(***************************************************************************)
(* litecord.permissions.overwrite_find_mix and litecord.utils.index_by_func, *)
(* as lazy_guild.py uses them.                                             *)
(***************************************************************************)
\* The overwrite of target_id, when there is one, is mixed into perms: its
\* deny bits are cleared, then its allow bits are set.
OverwriteFindMix(perms, overwrites, target_id) ==
    IF target_id \in DOMAIN overwrites
    THEN LET ov == overwrites[target_id]
             denied == IF ReadMessages(perms) /\ ~ReadMessages(ov.deny)
                       THEN READ_MESSAGES ELSE 0
         IN  IF ReadMessages(ov.allow) THEN READ_MESSAGES ELSE denied
    ELSE perms

\* index_by_func(function, indexable) for the set of 1-based positions where
\* function holds: the 0-based index of the first one, or None.
IndexByFunc(hits) ==
    IF hits = {} THEN None
    ELSE Some((CHOOSE i \in hits : \A j \in hits : i <= j) - 1)

\* Python's "not p_idx" for an Optional[int]: None and 0 are falsy.
NotIdx(idx) == IsNone(idx) \/ Val(idx) = 0

(***************************************************************************)
(* GuildMemberList: group computation.                                     *)
(***************************************************************************)
\* get_roles, lines 202-209: the hoisted rows as GroupInfo, sorted by
\* position (sorted() is stable).
HoistedSorted(roledata) ==
    LET hoistedRows == SelectSeq(roledata, LAMBDA row : row.hoist)
        pairs == [k \in 1..Len(hoistedRows) |->
                    [key |-> <<hoistedRows[k].position>>,
                     val |-> GroupInfo(hoistedRows[k].id, hoistedRows[k].name,
                                       hoistedRows[k].position,
                                       hoistedRows[k].permissions)]]
        sorted == StableSort(pairs)
    IN  [k \in 1..Len(sorted) |-> sorted[k].val]

\* Mutant of GetRoles: every hoisted role is kept.
GetRolesAllHoisted(roledata, overwrites) == HoistedSorted(roledata)

\* get_roles, lines 215-232: _can_read_chan replaces the permissions of each
\* group by the mixed ones and keeps the groups that can read the channel.
GetRoles(roledata, overwrites) ==
    LET hoisted == HoistedSorted(roledata)
        mixed == [k \in 1..Len(hoisted) |->
                    [hoisted[k] EXCEPT !.permissions =
                        OverwriteFindMix(hoisted[k].permissions, overwrites,
                                         hoisted[k].gid)]]
    IN  SelectSeq(mixed, LAMBDA group : ReadMessages(group.permissions))

\* set_groups, lines 237-246, for the list whose overwrites were fetched.
SetGroups(list, role_groups) ==
    LET role_ids == [k \in 1..Len(role_groups) |-> RoleId(role_groups[k].gid)]
        groups == role_ids \o <<GroupInfo("online", "online", -1, -1),
                                GroupInfo("offline", "offline", -1, -1)>>
        group_info == [gid \in {role_groups[k].gid : k \in 1..Len(role_groups)}
                         |-> LET k == CHOOSE j \in 1..Len(role_groups) :
                                          role_groups[j].gid = gid
                             IN  role_groups[k]]
    IN  [list EXCEPT !.groups = Some(groups), !.group_info = Some(group_info)]

\* _calc_member_group: the gid of the first group that is among roles, the
\* simple group when there is none; g.gid raises AttributeError on an entry
\* that is not a GroupInfo, if the scan reaches it.
RECURSIVE CalcMemberGroup(_, _, _)
CalcMemberGroup(groups, roles, status) ==
    IF groups = <<>>
    THEN [raised |-> FALSE, gid |-> ToSimpleGroup([status |-> status])]
    ELSE IF ~HasGid(Head(groups)) THEN [raised |-> TRUE, gid |-> "online"]
    ELSE IF Head(groups).gid \in roles
         THEN [raised |-> FALSE, gid |-> Head(groups).gid]
    ELSE CalcMemberGroup(Tail(groups), roles, status)

\* Mutant of DisplayName: the nickname is ignored.
DisplayNameUsername(presence, member_nicks) == presence.user.username

\* _sort_groups, lines 285-291: display_name
DisplayName(presence, member_nicks) ==
    LET uid == presence.user.id
        uname == presence.user.username
        nick == IF uid \in DOMAIN member_nicks THEN member_nicks[uid] ELSE None
    IN  IF IsNone(nick) \/ Val(nick) = <<>> THEN uname ELSE Val(nick)

\* _sort_groups, lines 284-294: every bucket sorted by display name.
SortGroups(data, member_nicks) ==
    [gid \in DOMAIN data |->
        LET pairs == [k \in 1..Len(data[gid]) |->
                        [key |-> DisplayName(data[gid][k], member_nicks),
                         val |-> data[gid][k]]]
            sorted == StableSort(pairs)
        IN  [k \in 1..Len(sorted) |-> sorted[k].val]]

\* Mutant of ItemsOf: the header of a group follows its members.
RECURSIVE ItemsOfHeaderLast(_)
ItemsOfHeaderLast(pairs) ==
    IF pairs = <<>> THEN <<>>
    ELSE [k \in 1..Len(Head(pairs).presences) |->
             [member |-> Head(pairs).presences[k]]]
         \o <<[group |-> [id |-> Head(pairs).group.gid,
                          count |-> Len(Head(pairs).presences)]]>>
         \o ItemsOfHeaderLast(Tail(pairs))

\* GuildMemberList.items
RECURSIVE ItemsOf(_)
ItemsOf(pairs) ==
    IF pairs = <<>> THEN <<>>
    ELSE <<[group |-> [id |-> Head(pairs).group.gid,
                       count |-> Len(Head(pairs).presences)]]>>
         \o [k \in 1..Len(Head(pairs).presences) |->
                [member |-> Head(pairs).presences[k]]]
         \o ItemsOf(Tail(pairs))

Items(list) == IF ~ListBool(list) THEN <<>> ELSE ItemsOf(ListIter(list))

\* _dispatch_sess, lines 382-387: the groups of the payload.
PayloadGroups(list) ==
    LET pairs == ListIter(list)
    IN  [k \in 1..Len(pairs) |->
            [count |-> Len(pairs[k].presences), id |-> pairs[k].group.gid]]

(***************************************************************************)
(* The state.                                                              *)
(***************************************************************************)
VARIABLES
    storage,     \* app.storage: the rows and permissions the store reads
    presence,    \* app.presence: the presences guild_presences returns
    state_man,   \* app.state_manager: the session ids fetch_raw resolves
    lazy_guild,  \* LazyGuildDispatcher: state and guild_map
    gmls,        \* the GuildMemberList objects, in order of creation
    pc,          \* pc[t]: the await task t is suspended at, or "idle"
    loc,         \* loc[t]: the arguments and locals of the call of task t
    calls        \* number of calls started

vars == <<storage, presence, state_man, lazy_guild, gmls, pc, loc, calls>>

Tasks == {1, 2}
Sessions == {"s1", "s2"}
Members == 1..NMembers
GuildId == 1
Channels == {1, 2}

\* Names as code points: "A", "a", "b".
NameA == <<65>>
Namea == <<97>>
Nameb == <<98>>

Presence(uid, username, status, roles) ==
    [user |-> [id |-> uid, username |-> username], status |-> status,
     roles |-> roles, game |-> 0]

(***************************************************************************)
(* GuildMemberList.state, a defaultdict(set): entries in insertion order.  *)
(***************************************************************************)
DictKeys(d) == {d[k].sid : k \in 1..Len(d)}

DictGet(d, sid) ==
    IF sid \in DictKeys(d)
    THEN (CHOOSE e \in ToSet(d) : e.sid = sid).ranges
    ELSE {}

\* Mutant of DictAdd: the range replaces the ranges of the session.
DictAddReplaces(d, sid, range) ==
    IF sid \in DictKeys(d)
    THEN [k \in 1..Len(d) |->
            IF d[k].sid = sid
            THEN [d[k] EXCEPT !.ranges = {range}] ELSE d[k]]
    ELSE Append(d, [sid |-> sid, ranges |-> {range}])

\* self.state[session_id].add(range)
DictAdd(d, sid, range) ==
    IF sid \in DictKeys(d)
    THEN [k \in 1..Len(d) |->
            IF d[k].sid = sid
            THEN [d[k] EXCEPT !.ranges = @ \cup {range}] ELSE d[k]]
    ELSE Append(d, [sid |-> sid, ranges |-> {range}])

\* self.state.pop(session_id), KeyError ignored
DictPop(d, sid) == SelectSeq(d, LAMBDA e : e.sid # sid)

GuildMemberList(guild_id, channel_id) ==
    [guild_id |-> guild_id, channel_id |-> channel_id, list |-> EmptyList,
     state |-> <<>>]

\* GuildMemberList.list_id
ListId(gml) ==
    IF gml.channel_id = gml.guild_id THEN "everyone"
    ELSE ToString(gml.channel_id)

\* Mutant of Unsub: the list is kept when the last session leaves.
UnsubKeepsList(gml, session_id) ==
    [gml EXCEPT !.state = DictPop(gml.state, session_id)]

\* GuildMemberList.unsub
Unsub(gml, session_id) ==
    LET popped == DictPop(gml.state, session_id)
    IN  [gml EXCEPT !.state = popped,
                    !.list = IF popped = <<>> THEN EmptyList ELSE @]

\* LazyGuildDispatcher.get_gml_guild
GetGmlGuild(guild_id) ==
    [k \in 1..Len(lazy_guild.guild_map[guild_id]) |->
        IF lazy_guild.guild_map[guild_id][k] \in DOMAIN lazy_guild.state
        THEN lazy_guild.state[lazy_guild.guild_map[guild_id][k]] ELSE 0]

(***************************************************************************)
(* The locals of one call.                                                 *)
(***************************************************************************)
\* channel_id is the channel the caller passed to get_gml and event the
\* event passed to dispatch.  popped and dropped are kept for the
\* properties: what self.state.pop returned in LazyGuildDispatcher.unsub
\* (None after a KeyError) and the list _set_empty_list replaced there.
NoCall ==
    [op |-> "none", chan |-> 0, self |-> 0, after |-> "none",
     channel_id |-> 0, event |-> "none", popped |-> None, dropped |-> None,
     session_id |-> "none", ranges |-> <<>>, user_id |-> 0,
     partial |-> [status |-> "online"], guild_presences |-> <<>>,
     roledata |-> <<>>, i |-> 0, payload |-> None, item_index |-> None,
     iter_pos |-> 0, iter_used |-> 0, cur |-> "none", dispatched |-> <<>>,
     redirects |-> 0, built |-> FALSE, err |-> "none", done |-> FALSE]

\* The outcome of the code that runs from a resumption to the next
\* suspension: the stores, the next await of the task and its locals.
Out(g, p, l) == [g |-> g, pc |-> p, l |-> l]

\* An exception leaves the call; err names it and the line that raises it,
\* or the awaited collaborator call that failed.
Raise(g, l, exc) == Out(g, "idle", [l EXCEPT !.err = exc, !.done = TRUE])

\* The call returns.
Return(g, l) == Out(g, "idle", [l EXCEPT !.done = TRUE])

(***************************************************************************)
(* GuildMemberList: dispatching.                                           *)
(***************************************************************************)
\* pres_update._is_in for the ranges recorded for one session
IsIn(ranges, item_index) ==
    \E r \in ranges : r[1] <= item_index /\ item_index <= r[2]

\* _dispatch_sess, lines 395-406: the loop over the states, from the
\* position the iteration has reached.  shard_query passes the list
\* [session_id]; pres_update passes a lazy filter over the keys of
\* self.state, so that _is_in and get_state run for one key at a time, and
\* the key iterator raises RuntimeError once the dict has changed size.
\* get_state unsubscribes a session the state manager cannot resolve.
DispatchLoop(g, l) ==
    LET gml == g[l.self]
    IN  IF l.op = "shard_query"
        THEN IF l.iter_pos = 0
             THEN IF l.session_id \in state_man
                  THEN Out(g, "ws_dispatch",
                           [l EXCEPT !.cur = l.session_id, !.iter_pos = 1])
                  ELSE Return([g EXCEPT ![l.self] = Unsub(gml, l.session_id)],
                              [l EXCEPT !.iter_pos = 1])
             ELSE Return(g, l)
        ELSE IF Len(gml.state) # l.iter_used
             THEN Raise(g, l, "RuntimeError:502")
             ELSE LET cand == {k \in (l.iter_pos + 1)..Len(gml.state) :
                                  IsIn(gml.state[k].ranges, Val(l.item_index))}
                  IN  IF cand = {} THEN Return(g, l)
                      ELSE LET k == CHOOSE i \in cand : \A j \in cand : i <= j
                               sid == gml.state[k].sid
                           IN  IF sid \in state_man
                               THEN Out(g, "ws_dispatch",
                                        [l EXCEPT !.cur = sid, !.iter_pos = k])
                               ELSE Raise([g EXCEPT ![l.self] = Unsub(gml, sid)],
                                          l, "RuntimeError:502")

\* _dispatch_sess, lines 377-398: the payload, then the loop.
DispatchSess(g, l, operations) ==
    LET gml == g[l.self]
        payload == [id |-> ListId(gml),
                    guild_id |-> ToString(gml.guild_id),
                    groups |-> PayloadGroups(gml.list),
                    ops |-> [k \in 1..Len(operations) |-> ToDict(operations[k])]]
    IN  IF IterRaises(gml.list) THEN Raise(g, l, "Error:55")
        ELSE DispatchLoop(g, [l EXCEPT !.payload = Some(payload),
                                       !.dispatched = <<>>, !.iter_pos = 0])

RECURSIVE AddRanges(_, _, _)
AddRanges(d, sid, ranges) ==
    IF ranges = <<>> THEN d
    ELSE AddRanges(DictAdd(d, sid, Head(ranges)), sid, Tail(ranges))

\* Mutant of ValidRange: no range is ignored.
ValidRangeAny(r) == TRUE

\* shard_query, line 451: "ignore incorrect ranges"
ValidRange(r) == ~(r[2] - r[1] < 0)

\* Mutant of ShardQueryTail: the operations are in the reverse order of the
\* request.
ShardQueryTailReversed(g, l) ==
    LET gml == g[l.self]
        valid == SelectSeq(l.ranges, ValidRange)
        items == Items(gml.list)
        ops == [k \in 1..Len(valid) |->
                  Operation("SYNC",
                      [range |-> valid[Len(valid) + 1 - k],
                       items |-> PySlice(items, valid[Len(valid) + 1 - k][1],
                                         valid[Len(valid) + 1 - k][2])])]
        recorded == [g EXCEPT ![l.self].state =
                        AddRanges(gml.state, l.session_id, valid)]
    IN  DispatchSess(recorded, l, ops)

\* shard_query, lines 445-461, once the list is initialized.
ShardQueryTail(g, l) ==
    LET gml == g[l.self]
        valid == SelectSeq(l.ranges, ValidRange)
        items == Items(gml.list)
        ops == [k \in 1..Len(valid) |->
                  Operation("SYNC",
                      [range |-> valid[k],
                       items |-> PySlice(items, valid[k][1], valid[k][2])])]
        recorded == [g EXCEPT ![l.self].state =
                        AddRanges(gml.state, l.session_id, valid)]
    IN  IF valid # <<>> /\ ListBool(gml.list) /\ IterRaises(gml.list)
        THEN Raise([g EXCEPT ![l.self].state =
                       DictAdd(gml.state, l.session_id, valid[1])],
                   l, "Error:55")
        ELSE DispatchSess(recorded, l, ops)

\* Mutant of MergeBucket: the presence of the user leaves the bucket.
MergeBucketDrops(presences, user_id, partial) ==
    SelectSeq(presences, LAMBDA p : p.user.id # user_id)

\* pres_update, lines 468-476: the partial presence is merged into the
\* presence index_by_func finds in each bucket, unless "not p_idx".
MergeBucket(presences, user_id, partial) ==
    LET p_idx == IndexByFunc({k \in 1..Len(presences) :
                                 presences[k].user.id = user_id})
    IN  IF NotIdx(p_idx) THEN presences
        ELSE [presences EXCEPT ![Val(p_idx) + 1] = DictUpdate(@, partial)]

\* Mutant of ItemIndex: the item at index 1 is taken for the member.
ItemIndexFirst(items, user_id) == Some(1)

\* pres_update, lines 478-484: the index of the member in self.items
ItemIndex(items, user_id) ==
    IndexByFunc({k \in 1..Len(items) :
                    /\ "member" \in DOMAIN items[k]
                    /\ items[k].member.user.id = user_id})

\* pres_update, lines 468-512, once the list is initialized.
PresUpdateTail(g, l) ==
    LET gml == g[l.self]
        merged == IF ListIter(gml.list) = <<>> THEN gml.list
                  ELSE [gml.list EXCEPT !.data =
                          Some([gid \in DOMAIN Val(gml.list.data) |->
                                  MergeBucket(Val(gml.list.data)[gid],
                                              l.user_id, l.partial)])]
        g2 == [g EXCEPT ![l.self].list = merged]
        items == Items(merged)
        item_index == ItemIndex(items, l.user_id)
    IN  IF IterRaises(gml.list) THEN Raise(g, l, "Error:55")
        ELSE IF NotIdx(item_index) THEN Return(g2, l)
        ELSE DispatchSess(g2,
                 [l EXCEPT !.item_index = item_index,
                           !.iter_used = Len(gml.state)],
                 <<Operation("UPDATE",
                       [index |-> Val(item_index),
                        item |-> items[Val(item_index) + 1]])>>)

\* The caller of _init_check goes on with an initialized list.
AfterInitCheck(g, l) ==
    IF l.op = "shard_query" THEN ShardQueryTail(g, l)
    ELSE IF l.op = "pres_update" THEN PresUpdateTail(g, l)
    ELSE Return(g, l)

\* _init_check
InitCheck(g, l) ==
    IF ~ListBool(g[l.self].list) THEN Out(g, "get_member_ids", l)
    ELSE AfterInitCheck(g, l)

\* What a caller of get_gml does with the store it gets: shard_query is
\* entered (by the gateway or by the redirect of shard_query, line 439) or
\* LazyGuildDispatcher.unsub unsubscribes the session.
WithGml(g, l, idx) ==
    IF l.after = "unsub"
    THEN Return([g EXCEPT ![idx] = Unsub(g[idx], l.session_id)],
                [l EXCEPT !.self = idx,
                          !.popped =
                              IF l.session_id \in DictKeys(g[idx].state)
                              THEN Some(DictGet(g[idx].state, l.session_id))
                              ELSE None,
                          !.dropped =
                              IF DictKeys(g[idx].state) \subseteq {l.session_id}
                              THEN Some(g[idx].list) ELSE None])
    ELSE Out(g, "role_permissions", [l EXCEPT !.self = idx])

\* get_gml, lines 553-556: the store of the channel, or the lookup of its
\* guild.
GetGml(g, l, channel_id) ==
    IF channel_id \in DOMAIN lazy_guild.state
    THEN WithGml(g, l, lazy_guild.state[channel_id])
    ELSE Out(g, "guild_from_channel", [l EXCEPT !.chan = channel_id])

Apply(t, out) ==
    /\ gmls' = out.g
    /\ pc' = [pc EXCEPT ![t] = out.pc]
    /\ loc' = [loc EXCEPT ![t] = out.l]

(***************************************************************************)
(* Calls.  A task that is idle starts a call; the code runs up to its      *)
(* first await.                                                            *)
(***************************************************************************)
StartCall(t) ==
    /\ pc[t] = "idle"
    /\ calls < MaxCalls
    /\ calls' = calls + 1

\* gml = await get_gml(channel_id); await gml.shard_query(session_id, ranges)
CallShardQuery(t, channel_id, session_id, ranges) ==
    /\ StartCall(t)
    /\ Apply(t, GetGml(gmls, [NoCall EXCEPT !.op = "shard_query",
                                            !.after = "shard_query",
                                            !.chan = channel_id,
                                            !.channel_id = channel_id,
                                            !.session_id = session_id,
                                            !.ranges = ranges],
                       channel_id))
    /\ UNCHANGED <<storage, presence, state_man, lazy_guild>>

\* pres_update on one of the stores get_gml_guild returns for the guild
CallPresUpdate(t, self, user_id, partial) ==
    /\ StartCall(t)
    /\ self \in ToSet(GetGmlGuild(GuildId))
    /\ Apply(t, InitCheck(gmls, [NoCall EXCEPT !.op = "pres_update",
                                               !.self = self,
                                               !.user_id = user_id,
                                               !.partial = partial]))
    /\ UNCHANGED <<storage, presence, state_man, lazy_guild>>

\* LazyGuildDispatcher.unsub
CallUnsub(t, chan_id, session_id) ==
    /\ StartCall(t)
    /\ Apply(t, GetGml(gmls, [NoCall EXCEPT !.op = "unsub",
                                            !.after = "unsub",
                                            !.chan = chan_id,
                                            !.channel_id = chan_id,
                                            !.session_id = session_id],
                       chan_id))
    /\ UNCHANGED <<storage, presence, state_man, lazy_guild>>

\* GuildMemberList.sub
CallSub(t, self, session_id) ==
    /\ StartCall(t)
    /\ self \in ToSet(GetGmlGuild(GuildId))
    /\ Apply(t, InitCheck(gmls, [NoCall EXCEPT !.op = "sub",
                                               !.self = self,
                                               !.session_id = session_id]))
    /\ UNCHANGED <<storage, presence, state_man, lazy_guild>>

\* GuildMemberList.dispatch: returns, whether the list is initialized or not
CallDispatch(t, self, event) ==
    /\ StartCall(t)
    /\ self \in ToSet(GetGmlGuild(GuildId))
    /\ Apply(t, Return(gmls, [NoCall EXCEPT !.op = "dispatch",
                                            !.self = self,
                                            !.event = event]))
    /\ UNCHANGED <<storage, presence, state_man, lazy_guild>>

(***************************************************************************)
(* Resumptions: the awaited call returns and the code runs up to the next  *)
(* await.                                                                  *)
(***************************************************************************)
\* Mutant of GuildFromChannel: the channel is not recorded under its guild.
GuildFromChannelUnlisted(t) ==
    /\ pc[t] = "guild_from_channel"
    /\ Len(gmls) < MaxGmls
    /\ LET channel_id == loc[t].chan
           found == storage.guild_from_channel[channel_id]
           guild_id == IF IsNone(found) THEN channel_id ELSE Val(found)
           idx == Len(gmls) + 1
       IN  /\ lazy_guild' =
                 [lazy_guild EXCEPT !.state = (channel_id :> idx) @@ @]
           /\ Apply(t, WithGml(Append(gmls,
                                      GuildMemberList(guild_id, channel_id)),
                               loc[t], idx))
    /\ UNCHANGED <<storage, presence, state_man, calls>>

\* get_gml, lines 556-568
GuildFromChannel(t) ==
    /\ pc[t] = "guild_from_channel"
    /\ Len(gmls) < MaxGmls
    /\ LET channel_id == loc[t].chan
           found == storage.guild_from_channel[channel_id]
           guild_id == IF IsNone(found) THEN channel_id ELSE Val(found)
           idx == Len(gmls) + 1
       IN  /\ lazy_guild' =
                 [state |-> (channel_id :> idx) @@ lazy_guild.state,
                  guild_map |-> [lazy_guild.guild_map EXCEPT
                                    ![guild_id] = Append(@, channel_id)]]
           /\ Apply(t, WithGml(Append(gmls,
                                      GuildMemberList(guild_id, channel_id)),
                               loc[t], idx))
    /\ UNCHANGED <<storage, presence, state_man, calls>>

\* Mutant of Redirects: no request is directed to another store.
RedirectsNever(gml) == FALSE

\* shard_query, lines 424-436: everyone can read the channel and the list
\* is not the 'everyone' list
Redirects(gml) ==
    LET everyone_perms == storage.everyone_perms[gml.channel_id]
    IN  ReadMessages(everyone_perms) /\ ListId(gml) # "everyone"

\* shard_query, lines 424-443
RolePermissions(t) ==
    /\ pc[t] = "role_permissions"
    /\ LET gml == gmls[loc[t].self]
       IN  IF Redirects(gml)
           THEN Apply(t, GetGml(gmls, [loc[t] EXCEPT !.redirects = @ + 1],
                                gml.guild_id))
           ELSE Apply(t, InitCheck(gmls, loc[t]))
    /\ UNCHANGED <<storage, presence, state_man, lazy_guild, calls>>

\* _init_member_list, line 298
GetMemberIds(t) ==
    /\ pc[t] = "get_member_ids"
    /\ Apply(t, Out(gmls, "guild_presences", loc[t]))
    /\ UNCHANGED <<storage, presence, state_man, lazy_guild, calls>>

\* _init_member_list, lines 300-303
GuildPresences(t) ==
    /\ pc[t] = "guild_presences"
    /\ Apply(t, Out(gmls, "fetch_roles",
                    [loc[t] EXCEPT !.guild_presences = presence]))
    /\ UNCHANGED <<storage, presence, state_man, lazy_guild, calls>>

\* get_roles, lines 196-213
FetchRoles(t) ==
    /\ pc[t] = "fetch_roles"
    /\ Apply(t, Out(gmls, "chan_overwrites",
                    [loc[t] EXCEPT !.roledata = storage.roles]))
    /\ UNCHANGED <<storage, presence, state_man, lazy_guild, calls>>

\* _pass_1, lines 253-262: the next presence, or _sort_groups, line 276
Pass1Next(g, l, i) ==
    IF i <= Len(l.guild_presences)
    THEN Out(g, "get_permissions", [l EXCEPT !.i = i])
    ELSE Out(g, "get_member_data", l)

\* _fetch_overwrites, lines 162-164; get_roles, lines 215-232; set_groups,
\* lines 237-246; _init_member_list, lines 305-313
ChanOverwrites(t) ==
    /\ pc[t] = "chan_overwrites"
    /\ LET l == loc[t]
           gml == gmls[l.self]
           overwrites == storage.chan_overwrites[gml.channel_id]
           fetched == [gml.list EXCEPT !.overwrites = Some(overwrites)]
           role_groups == GetRoles(l.roledata, overwrites)
           grouped == SetGroups(fetched, role_groups)
           groups == Val(grouped.groups)
           data == [gid \in {groups[k].gid : k \in 1..Len(groups)} |-> <<>>]
       IN  IF \E k \in 1..Len(groups) : ~HasGid(groups[k])
           THEN Apply(t, Raise([gmls EXCEPT ![l.self].list = grouped], l,
                               "AttributeError:309"))
           ELSE Apply(t, Pass1Next(
                           [gmls EXCEPT ![l.self].list =
                               [grouped EXCEPT !.data = Some(data)]],
                           l, 1))
    /\ UNCHANGED <<storage, presence, state_man, lazy_guild, calls>>

\* Mutant of Pass1Skips: nobody is skipped.
Pass1SkipsNobody(member_perms) == FALSE

\* _pass_1, lines 264-265: the member cannot read the channel
Pass1Skips(member_perms) == ~ReadMessages(member_perms)

\* Mutant of Pass1Append: the buckets are one shared list.
Pass1AppendShared(data, group_id, pres) ==
    [gid \in DOMAIN data |-> Append(data[gid], pres)]

\* _pass_1, line 273, on the buckets of line 309 (one list per group)
Pass1Append(data, group_id, pres) ==
    [data EXCEPT ![group_id] = Append(@, pres)]

\* _pass_1, lines 262-273
GetPermissions(t) ==
    /\ pc[t] = "get_permissions"
    /\ LET l == loc[t]
           gml == gmls[l.self]
           list == gml.list
           pres == l.guild_presences[l.i]
           member_perms == storage.member_perms[gml.channel_id][pres.user.id]
           calc == CalcMemberGroup(Val(list.groups), pres.roles, pres.status)
           group_id == IF pres.status = "offline" THEN "offline" ELSE calc.gid
       IN  IF Pass1Skips(member_perms)
           THEN Apply(t, Pass1Next(gmls, l, l.i + 1))
           ELSE IF pres.status # "offline" /\ IsNone(list.groups)
           THEN Apply(t, Raise(gmls, l, "TypeError:173"))
           ELSE IF pres.status # "offline" /\ calc.raised
           THEN Apply(t, Raise(gmls, l, "AttributeError:173"))
           ELSE IF IsNone(list.data)
           THEN Apply(t, Raise(gmls, l, "TypeError:273"))
           ELSE IF group_id \notin DOMAIN Val(list.data)
           THEN Apply(t, Raise(gmls, l, "KeyError:273"))
           ELSE Apply(t, Pass1Next(
                           [gmls EXCEPT ![l.self].list.data =
                               Some(Pass1Append(Val(list.data), group_id,
                                                pres))],
                           l, l.i + 1))
    /\ UNCHANGED <<storage, presence, state_man, lazy_guild, calls>>

\* _sort_groups, lines 276-294, and the return of _init_check to its caller
GetMemberData(t) ==
    /\ pc[t] = "get_member_data"
    /\ LET l == loc[t]
           list == gmls[l.self].list
       IN  IF IsNone(list.data)
           THEN Apply(t, Raise(gmls, l, "AttributeError:284"))
           ELSE Apply(t, AfterInitCheck(
                           [gmls EXCEPT ![l.self].list.data =
                               Some(SortGroups(Val(list.data),
                                               storage.member_data))],
                           [l EXCEPT !.built = TRUE]))
    /\ UNCHANGED <<storage, presence, state_man, lazy_guild, calls>>

\* _dispatch_sess, lines 401-406
WsDispatch(t) ==
    /\ pc[t] = "ws_dispatch"
    /\ Apply(t, DispatchLoop(gmls, [loc[t] EXCEPT
                                       !.dispatched = Append(@, loc[t].cur)]))
    /\ UNCHANGED <<storage, presence, state_man, lazy_guild, calls>>

\* The awaited collaborator raises: the exception leaves the call.
CollaboratorFails(t) ==
    /\ pc[t] # "idle"
    /\ Apply(t, Raise(gmls, loc[t], pc[t]))
    /\ UNCHANGED <<storage, presence, state_man, lazy_guild, calls>>

\* The state manager forgets a session (its connection is gone).
SessionGone(session_id) ==
    /\ session_id \in state_man
    /\ state_man' = state_man \ {session_id}
    /\ UNCHANGED <<storage, presence, lazy_guild, gmls, pc, loc, calls>>

(***************************************************************************)
(* The guild the stores are built from: guild 1 with channel 2; the guild  *)
(* id is the channel id of the guild's "everyone" list, for which          *)
(* guild_from_channel finds no guild.                                      *)
(***************************************************************************)
Username(m) ==
    CASE m = 1 -> Nameb
      [] m = 2 -> Namea
      [] OTHER -> <<66, 64 + m>>

Role(id, name, hoist, position, permissions) ==
    [id |-> id, name |-> name, hoist |-> hoist, position |-> position,
     permissions |-> permissions]

NoOverwrites == [c \in Channels |-> <<>>]

Storage(roles, chan_overwrites, member_data, member_perms, everyone_perms) ==
    [roles |-> roles, chan_overwrites |-> chan_overwrites,
     member_data |-> member_data,
     guild_from_channel |-> [c \in Channels |->
                                IF c = GuildId THEN None ELSE Some(GuildId)],
     member_perms |-> member_perms, everyone_perms |-> everyone_perms]

\* The state after the construction of LazyGuildDispatcher, for a guild
\* whose data is drawn from the given sets.
InitWith(presences, storages) ==
    /\ presence \in presences
    /\ storage \in storages
    /\ state_man = Sessions
    /\ lazy_guild = [state |-> <<>>, guild_map |-> [c \in Channels |-> <<>>]]
    /\ gmls = <<>>
    /\ pc = [t \in Tasks |-> "idle"]
    /\ loc = [t \in Tasks |-> NoCall]
    /\ calls = 0

(***************************************************************************)
(* Spec: one task calls the operations of the store of channel 2 one after *)
(* the other.  Everyone cannot read channel 2, so that the store answers   *)
(* for itself.  Member 1 is online and holds role r1, the last member is   *)
(* offline; the status of the members between, the read permission of the  *)
(* last member and whether r1 is hoisted vary.  The state manager may lose *)
(* session s2.                                                             *)
(***************************************************************************)
MainPresences ==
    {[m \in Members |->
        Presence(m, Username(m),
                 IF m = 1 THEN "online"
                 ELSE IF m = NMembers THEN "offline" ELSE status,
                 IF m = 1 THEN {"r1"} ELSE {})] :
        status \in {"online", "offline"}}

MainStorages ==
    {Storage(<<Role("r1", "mods", hoist, 1, READ_MESSAGES)>>,
             NoOverwrites,
             [m \in Members |-> IF m = 1 THEN Some(NameA) ELSE None],
             [c \in Channels |->
                 [m \in Members |-> IF m = NMembers THEN last
                                    ELSE READ_MESSAGES]],
             [c \in Channels |-> IF c = GuildId THEN READ_MESSAGES ELSE 0]) :
        hoist \in BOOLEAN, last \in {0, READ_MESSAGES}}

\* The requests of a session: the header of the first group alone, the
\* items from index 2 to beyond the end of the list, an invalid range
\* before a valid one, and two valid ranges.
MainRequests ==
    {<< <<0, 1>> >>, << <<2, MaxRangeEnd>> >>, << <<3, 1>>, <<0, 1>> >>,
     << <<2, MaxRangeEnd>>, <<0, 1>> >>}

Partials == {[status |-> "offline"], [status |-> "idle", game |-> 1]}

\* The events dispatch is called with: a member changes roles, and the
\* overwrites of a channel are edited.
Events == {"GUILD_MEMBER_UPDATE", "CHANNEL_UPDATE"}

Init == InitWith(MainPresences, MainStorages)

Call(t) ==
    \/ \E sid \in Sessions, ranges \in MainRequests :
          CallShardQuery(t, 2, sid, ranges)
    \/ \E self \in 1..Len(gmls), u \in 1..(NMembers + 1), partial \in Partials :
          CallPresUpdate(t, self, u, partial)
    \/ \E sid \in Sessions : CallUnsub(t, 2, sid)
    \/ \E self \in 1..Len(gmls) : CallSub(t, self, "s1")
    \/ \E self \in 1..Len(gmls), event \in Events : CallDispatch(t, self, event)

Resume(t) ==
    \/ GuildFromChannel(t)
    \/ RolePermissions(t)
    \/ GetMemberIds(t)
    \/ GuildPresences(t)
    \/ FetchRoles(t)
    \/ ChanOverwrites(t)
    \/ GetPermissions(t)
    \/ GetMemberData(t)
    \/ WsDispatch(t)
    \/ CollaboratorFails(t)

Next ==
    \/ Call(1)
    \/ Resume(1)
    \/ SessionGone("s2")

Spec == Init /\ [][Next]_vars

(***************************************************************************)
(* SpecBuild: one shard_query builds the roster of channel 2 of a guild    *)
(* whose usernames, nicknames and statuses vary.  Role r1 is hoisted but   *)
(* the channel denies it read access, role r2 is not hoisted; member 1     *)
(* holds r1 and may lack read permission, member 2 holds r2.               *)
(***************************************************************************)
BuildPresences ==
    {[m \in Members |->
        Presence(m, f[m][1], f[m][2],
                 IF m = 1 THEN {"r1"} ELSE IF m = 2 THEN {"r2"} ELSE {})] :
        f \in [Members -> {Namea, Nameb} \X {"online", "offline"}]}

BuildStorages ==
    {Storage(<<Role("r1", "mods", TRUE, 1, READ_MESSAGES),
               Role("r2", "fans", FALSE, 2, READ_MESSAGES)>>,
             [c \in Channels |->
                 IF c = 2 THEN ("r1" :> [allow |-> 0, deny |-> READ_MESSAGES])
                 ELSE <<>>],
             nicks,
             [c \in Channels |->
                 [m \in Members |-> IF m = 1 THEN first ELSE READ_MESSAGES]],
             [c \in Channels |-> IF c = GuildId THEN READ_MESSAGES ELSE 0]) :
        nicks \in [Members -> {None, Some(<<>>), Some(NameA)}],
        first \in {0, READ_MESSAGES}}

InitBuild == InitWith(BuildPresences, BuildStorages)

NextBuild ==
    \/ calls = 0 /\ CallShardQuery(1, 2, "s1", << <<0, MaxRangeEnd>> >>)
    \/ Resume(1)

SpecBuild == InitBuild /\ [][NextBuild]_vars

(***************************************************************************)
(* SpecSync: one shard_query for any one range over 0..MaxRangeEnd, on the *)
(* guilds of Spec.                                                         *)
(***************************************************************************)
AllRanges == (0..MaxRangeEnd) \X (0..MaxRangeEnd)

NextSync ==
    \/ calls = 0 /\ \E r \in AllRanges : CallShardQuery(1, 2, "s1", <<r>>)
    \/ Resume(1)

SpecSync == Init /\ [][NextSync]_vars

(***************************************************************************)
(* SpecStale: on the guilds of Spec, both sessions subscribe to the same   *)
(* range of channel 2, the state manager may lose either of them, and      *)
(* presences are updated.                                                  *)
(***************************************************************************)
NextStale ==
    \/ \E sid \in Sessions :
          CallShardQuery(1, 2, sid, << <<2, MaxRangeEnd>> >>)
    \/ \E self \in 1..Len(gmls), u \in Members, partial \in Partials :
          CallPresUpdate(1, self, u, partial)
    \/ Resume(1)
    \/ \E sid \in Sessions : SessionGone(sid)

SpecStale == Init /\ [][NextStale]_vars

(***************************************************************************)
(* SpecRound: on the guilds of Spec, task 1 subscribes session s1 to       *)
(* channel 2 and task 2 unsubscribes it, one call after the other.         *)
(***************************************************************************)
NextRound ==
    \/ \E ranges \in MainRequests : CallShardQuery(1, 2, "s1", ranges)
    \/ Resume(1)
    \/ /\ pc[1] = "idle"
       /\ 2 \in DOMAIN lazy_guild.state
       /\ CallUnsub(2, 2, "s1")

SpecRound == Init /\ [][NextRound]_vars

(***************************************************************************)
(* SpecPublic: one task calls shard_query and unsub on channel 2 and on    *)
(* the channel of the 'everyone' list, in guilds where everyone may or may *)
(* not read each of the two channels.  No role is hoisted.                 *)
(***************************************************************************)
PublicStorages ==
    {Storage(<<Role("r1", "mods", FALSE, 1, READ_MESSAGES)>>,
             NoOverwrites,
             [m \in Members |-> IF m = 1 THEN Some(NameA) ELSE None],
             [c \in Channels |->
                 [m \in Members |-> IF m = NMembers /\ c = GuildId THEN 0
                                    ELSE READ_MESSAGES]],
             everyone_perms) :
        everyone_perms \in [Channels -> {0, READ_MESSAGES}]}

\* The requests of a session: the header of the first group alone, and an
\* invalid range before the whole list.
PublicRequests == {<< <<0, 1>> >>, << <<3, 1>>, <<0, MaxRangeEnd>> >>}

InitPublic == InitWith(MainPresences, PublicStorages)

NextPublic ==
    \/ \E c \in Channels, sid \in Sessions, ranges \in PublicRequests :
          CallShardQuery(1, c, sid, ranges)
    \/ \E c \in Channels, sid \in Sessions : CallUnsub(1, c, sid)
    \/ Resume(1)

SpecPublic == InitPublic /\ [][NextPublic]_vars

(***************************************************************************)
(* SpecUndo: one task calls shard_query and LazyGuildDispatcher.unsub on   *)
(* channel 2 alone, in the guilds of SpecPublic: a session is recorded     *)
(* only through a shard_query made on channel 2.                           *)
(***************************************************************************)
NextUndo ==
    \/ \E sid \in Sessions, ranges \in PublicRequests :
          CallShardQuery(1, 2, sid, ranges)
    \/ \E sid \in Sessions : CallUnsub(1, 2, sid)
    \/ Resume(1)

SpecUndo == InitPublic /\ [][NextUndo]_vars

(***************************************************************************)
(* SpecLive: one task calls shard_query on channel 2 and on the channel of *)
(* the 'everyone' list, every awaited collaborator returns and the state   *)
(* manager resolves every session.  Everyone may or may not read each of   *)
(* the channels and role r1 is hoisted or not.  The event loop resumes a   *)
(* task whose await has returned: the resumptions are weakly fair.         *)
(***************************************************************************)
LiveStorages ==
    {Storage(<<Role("r1", "mods", hoist, 1, READ_MESSAGES)>>,
             NoOverwrites,
             [m \in Members |-> IF m = 1 THEN Some(NameA) ELSE None],
             [c \in Channels |-> [m \in Members |-> READ_MESSAGES]],
             everyone_perms) :
        hoist \in BOOLEAN, everyone_perms \in [Channels -> {0, READ_MESSAGES}]}

InitLive == InitWith(MainPresences, LiveStorages)

\* The awaited collaborator returns and the call goes on.
ResumeReturns(t) ==
    \/ GuildFromChannel(t)
    \/ RolePermissions(t)
    \/ GetMemberIds(t)
    \/ GuildPresences(t)
    \/ FetchRoles(t)
    \/ ChanOverwrites(t)
    \/ GetPermissions(t)
    \/ GetMemberData(t)
    \/ WsDispatch(t)

NextLive ==
    \/ \E c \in Channels, sid \in Sessions, ranges \in PublicRequests :
          CallShardQuery(1, c, sid, ranges)
    \/ ResumeReturns(1)

SpecLive == InitLive /\ [][NextLive]_vars /\ WF_vars(ResumeReturns(1))

(***************************************************************************)
(* SpecRace: two tasks run at once; task 1 serves session s1 and task 2    *)
(* session s2, each with shard_query and unsub on channel 2, which         *)
(* everyone cannot read.  The tasks interleave at every await.             *)
(***************************************************************************)
RaceStorages ==
    {Storage(<<Role("r1", "mods", FALSE, 1, READ_MESSAGES)>>,
             NoOverwrites,
             [m \in Members |-> IF m = 1 THEN Some(NameA) ELSE None],
             [c \in Channels |-> [m \in Members |-> READ_MESSAGES]],
             [c \in Channels |-> IF c = GuildId THEN READ_MESSAGES ELSE 0])}

SessionOf(t) == IF t = 1 THEN "s1" ELSE "s2"

InitRace == InitWith(MainPresences, RaceStorages)

CallRace(t) ==
    \/ CallShardQuery(t, 2, SessionOf(t), << <<0, MaxRangeEnd>> >>)
    \/ CallUnsub(t, 2, SessionOf(t))

NextRace == \E t \in Tasks : CallRace(t) \/ Resume(t)

SpecRace == InitRace /\ [][NextRace]_vars

(***************************************************************************)
(* SpecWire: Operation.to_dict is applied to operations of each of the     *)
(* five kinds, whose params hold a range, items, an index and an item.     *)
(***************************************************************************)
WireOperations ==
    {Operation(list_op, [range |-> range, items |-> items, index |-> index,
                         item |-> item]) :
        list_op \in {"SYNC", "INVALIDATE", "INSERT", "UPDATE", "DELETE"},
        range \in {<<0, 1>>, <<2, MaxRangeEnd>>},
        items \in {<<>>, <<[group |-> [id |-> "online", count |-> 0]]>>},
        index \in {0, NMembers},
        item \in {[group |-> [id |-> "offline", count |-> 1]],
                  [member |-> Presence(1, Namea, "online", {})]}}

\* operation.to_dict; the operation and the dict are kept in the locals
CallToDict(t, operation) ==
    /\ StartCall(t)
    /\ Apply(t, Return(gmls, [NoCall EXCEPT
                                 !.op = "to_dict",
                                 !.payload = Some([operation |-> operation,
                                                   res |-> ToDict(operation)])
                             ]))
    /\ UNCHANGED <<storage, presence, state_man, lazy_guild>>

NextWire == \E operation \in WireOperations : CallToDict(1, operation)

SpecWire == Init /\ [][NextWire]_vars

(***************************************************************************)
(* SpecGroups: one shard_query on channel 2 of guilds with the roles r1 at *)
(* position 1 and r2 at position 2, each hoisted or not; r1 grants         *)
(* read_messages or not and the channel has no overwrite for it, or one    *)
(* that denies read_messages, or one that allows it.                       *)
(***************************************************************************)
GroupsStorages ==
    {Storage(<<Role("r1", "mods", hoist1, 1, perms1),
               Role("r2", "fans", hoist2, 2, READ_MESSAGES)>>,
             [c \in Channels |-> IF c = 2 THEN ov ELSE <<>>],
             [m \in Members |-> None],
             [c \in Channels |-> [m \in Members |-> READ_MESSAGES]],
             [c \in Channels |-> IF c = GuildId THEN READ_MESSAGES ELSE 0]) :
        hoist1 \in BOOLEAN, hoist2 \in BOOLEAN, perms1 \in {0, READ_MESSAGES},
        ov \in {<<>>, "r1" :> [allow |-> 0, deny |-> READ_MESSAGES],
                "r1" :> [allow |-> READ_MESSAGES, deny |-> 0]}}

InitGroups == InitWith(MainPresences, GroupsStorages)

NextGroups ==
    \/ calls = 0 /\ CallShardQuery(1, 2, "s1", << <<0, MaxRangeEnd>> >>)
    \/ Resume(1)

SpecGroups == InitGroups /\ [][NextGroups]_vars

(***************************************************************************)
(* Properties.                                                             *)
(***************************************************************************)
GmlIds == 1..Len(gmls)

\* The awaits of a build.
BuildAwaits ==
    {"get_member_ids", "guild_presences", "fetch_roles", "chan_overwrites",
     "get_permissions", "get_member_data"}

\* get_permissions grants member m read_messages on the channel of store o.
MayRead(o, m) == storage.member_perms[gmls[o].channel_id][m] = READ_MESSAGES

\* The positions <<gid, k>> of the buckets of store o that hold member m.
PlacesOf(o, m) ==
    LET data == Val(gmls[o].list.data)
    IN  {<<gid, k>> \in (DOMAIN data) \X (1..NMembers) :
            k <= Len(data[gid]) /\ data[gid][k].user.id = m}

\* The sessions of store o with a recorded range [start, end) that holds i.
Watching(o, i) ==
    {sid \in DictKeys(gmls[o].state) :
        \E r \in DictGet(gmls[o].state, sid) : r[1] <= i /\ i < r[2]}

\* C1: pres_update dispatches the UPDATE for flat index i to a session if
\* and only if one of its recorded half-open ranges [start, end) holds i.
C1_SubscriptionIsolation ==
    \A t \in Tasks :
        (loc[t].op = "pres_update" /\ ~IsNone(loc[t].item_index)) =>
            LET o == loc[t].self
                i == Val(loc[t].item_index)
                served == ToSet(loc[t].dispatched)
                          \cup (IF pc[t] = "ws_dispatch" THEN {loc[t].cur}
                                ELSE {})
            IN  /\ served \subseteq Watching(o, i)
                /\ (loc[t].done /\ loc[t].err = "none")
                      => Watching(o, i) \subseteq served

\* C2: the four fields of the MemberList of a store are all set or all
\* None, in every state.
C2_AllOrNothing ==
    \A o \in GmlIds : ListBool(gmls[o].list) \/ gmls[o].list = EmptyList

\* C3: when a collaborator call of a build fails, the call raises and the
\* roster of the store is empty afterwards.
C3_BuildFailureLeavesEmpty ==
    \A t \in Tasks :
        (loc[t].done /\ loc[t].err \in BuildAwaits) =>
            /\ ~ListBool(gmls[loc[t].self].list)
            /\ gmls[loc[t].self].list = EmptyList

\* C4: after a completed build every member with read permission is at
\* exactly one position of exactly one bucket, and the buckets hold nobody
\* else.
C4_GroupPartition ==
    \A t \in Tasks :
        (loc[t].built /\ ListBool(gmls[loc[t].self].list)) =>
            LET o == loc[t].self
                data == Val(gmls[o].list.data)
            IN  /\ \A m \in Members :
                      Cardinality(PlacesOf(o, m)) =
                          IF MayRead(o, m) THEN 1 ELSE 0
                /\ \A gid \in DOMAIN data : \A k \in 1..Len(data[gid]) :
                      data[gid][k].user.id \in Members

C4_Witness ==
    \E t \in Tasks :
        /\ loc[t].built /\ ListBool(gmls[loc[t].self].list)
        /\ \E m \in Members : ~MayRead(loc[t].self, m)
        /\ \A gid \in {"online", "offline"} :
              Len(Val(gmls[loc[t].self].list.data)[gid]) > 0

\* The members carried by the items of a payload.
PayloadMembers(payload) ==
    UNION {IF "items" \in DOMAIN payload.ops[k]
           THEN {payload.ops[k].items[j].member.user.id :
                    j \in {j \in 1..Len(payload.ops[k].items) :
                              "member" \in DOMAIN payload.ops[k].items[j]}}
           ELSE IF "item" \in DOMAIN payload.ops[k]
                   /\ "member" \in DOMAIN payload.ops[k].item
           THEN {payload.ops[k].item.member.user.id}
           ELSE {} : k \in 1..Len(payload.ops)}

\* C5: a member without read permission on the channel is in no bucket of
\* the store and in no item of a SYNC or UPDATE the store dispatches.
C5_PermissionGating ==
    /\ \A o \in GmlIds : \A m \in Members :
          (~IsNone(gmls[o].list.data) /\ ~MayRead(o, m)) => PlacesOf(o, m) = {}
    /\ \A t \in Tasks :
          ~IsNone(loc[t].payload) =>
              \A m \in PayloadMembers(Val(loc[t].payload)) :
                  MayRead(loc[t].self, m)

C5_Witness ==
    \E t \in Tasks :
        /\ pc[t] = "ws_dispatch"
        /\ PayloadMembers(Val(loc[t].payload)) # {}
        /\ \E m \in Members : ~MayRead(loc[t].self, m)

\* C6: after set_groups every entry of the group list is a GroupInfo that
\* exposes gid: the kept hoisted roles by ascending position, then online,
\* then offline.
C6_GroupOrder ==
    \A o \in GmlIds :
        ~IsNone(gmls[o].list.groups) =>
            LET groups == Val(gmls[o].list.groups)
                n == Len(groups)
            IN  /\ \A k \in 1..n : HasGid(groups[k])
                /\ n >= 2
                /\ groups[n - 1].gid = "online" /\ groups[n].gid = "offline"
                /\ \A k \in 1..(n - 3) :
                      groups[k].position <= groups[k + 1].position

\* The display name of a presence: the nickname of the member when one is
\* set (None and the empty nickname are not), else the username.
ShownName(p) ==
    LET nick == storage.member_data[p.user.id]
    IN  IF nick # None /\ nick # Some(<<>>) THEN nick[1] ELSE p.user.username

\* C7: after a completed build no member of a bucket has a display name
\* greater than the display name of the member after it.
C7_BucketsSorted ==
    \A t \in Tasks :
        (loc[t].built /\ ListBool(gmls[loc[t].self].list)) =>
            LET data == Val(gmls[loc[t].self].list.data)
            IN  \A gid \in DOMAIN data : \A k \in 1..(Len(data[gid]) - 1) :
                    ~SeqLess(ShownName(data[gid][k + 1]),
                             ShownName(data[gid][k]))

\* A bucket of three members where a nickname decides the order.
C7_Witness ==
    \E t \in Tasks :
        /\ loc[t].built /\ ListBool(gmls[loc[t].self].list)
        /\ \E gid \in DOMAIN Val(gmls[loc[t].self].list.data) :
              LET bucket == Val(gmls[loc[t].self].list.data)[gid]
              IN  /\ Len(bucket) >= 3
                  /\ \E k \in 1..(Len(bucket) - 1) :
                        /\ SeqLess(bucket[k + 1].user.username,
                                   bucket[k].user.username)
                        /\ bucket[k].user.id > bucket[k + 1].user.id

\* Number of items before the header of group k.
RECURSIVE Offset(_, _, _)
Offset(groups, data, k) ==
    IF k <= 1 THEN 0
    ELSE Offset(groups, data, k - 1) + 1 + Len(data[groups[k - 1].gid])

\* C8: in a ready state the flat sequence is, group after group and without
\* gaps, a header with the group id and the size of its bucket followed by
\* the members of the bucket; an empty roster has an empty flat sequence.
C8_FlatIndexConsistency ==
    \A o \in GmlIds :
        LET list == gmls[o].list
            flat == Items(list)
        IN  IF ~ListBool(list) THEN flat = <<>>
            ELSE LET groups == Val(list.groups)
                     data == Val(list.data)
                 IN  /\ Len(flat) = Offset(groups, data, Len(groups) + 1)
                     /\ \A k \in 1..Len(groups) :
                           LET at == Offset(groups, data, k)
                               bucket == data[groups[k].gid]
                           IN  /\ flat[at + 1] =
                                     [group |-> [id |-> groups[k].gid,
                                                 count |-> Len(bucket)]]
                               /\ \A j \in 1..Len(bucket) :
                                     flat[at + 1 + j] = [member |-> bucket[j]]

C8_Witness ==
    \E o \in GmlIds :
        /\ ListBool(gmls[o].list)
        /\ \A gid \in {"online", "offline"} :
              Len(Val(gmls[o].list.data)[gid]) > 0
        /\ Len(Items(gmls[o].list)) = 2 + NMembers

\* C9: every operation of the answer to a shard_query is a SYNC for a range
\* [start, end] with end >= start whose items are the elements of the flat
\* sequence at the indices start..end-1 that exist.
C9_SyncContent ==
    \A t \in Tasks :
        (loc[t].op = "shard_query" /\ pc[t] = "ws_dispatch") =>
            LET flat == Items(gmls[loc[t].self].list)
                ops == Val(loc[t].payload).ops
            IN  \A k \in 1..Len(ops) :
                    LET start == ops[k].range[1]
                        end == ops[k].range[2]
                        present == {i \in start..(end - 1) : i < Len(flat)}
                    IN  /\ DOMAIN ops[k] = {"op", "range", "items"}
                        /\ ops[k].op = "SYNC"
                        /\ ops[k].range \in ToSet(loc[t].ranges)
                        /\ end >= start
                        /\ Len(ops[k].items) = Cardinality(present)
                        /\ \A j \in 1..Len(ops[k].items) :
                              ops[k].items[j] = flat[start + j]

\* A SYNC cut short by the end of the flat sequence.
C9_Witness ==
    \E t \in Tasks :
        /\ loc[t].op = "shard_query" /\ pc[t] = "ws_dispatch"
        /\ \E k \in 1..Len(Val(loc[t].payload).ops) :
              LET op == Val(loc[t].payload).ops[k]
              IN  /\ Len(op.items) >= 2
                  /\ Len(op.items) < op.range[2] - op.range[1]

\* C10: a range with end < start is never recorded and gets no SYNC, the
\* ranges loop raises nothing, and the other ranges of the request are
\* recorded and answered in the order of the request.
C10_InvalidRangeSkipped ==
    /\ \A o \in GmlIds : \A sid \in DictKeys(gmls[o].state) :
          \A r \in DictGet(gmls[o].state, sid) : r[1] <= r[2]
    /\ \A t \in Tasks :
          loc[t].op = "shard_query" =>
              /\ loc[t].err \in {"none", "AttributeError:309",
                                 "guild_from_channel", "role_permissions",
                                 "ws_dispatch"} \cup BuildAwaits
              /\ pc[t] = "ws_dispatch" =>
                    LET asked == SelectSeq(loc[t].ranges,
                                           LAMBDA r : r[1] <= r[2])
                        ops == Val(loc[t].payload).ops
                    IN  /\ Len(ops) = Len(asked)
                        /\ \A k \in 1..Len(ops) : ops[k].range = asked[k]
                        /\ ToSet(asked) \subseteq
                              DictGet(gmls[loc[t].self].state,
                                      loc[t].session_id)

\* A request with an invalid range before a valid one is being answered.
C10_Witness ==
    \E t \in Tasks :
        /\ loc[t].op = "shard_query" /\ pc[t] = "ws_dispatch"
        /\ Len(loc[t].ranges) = 2
        /\ loc[t].ranges[1][2] < loc[t].ranges[1][1]
        /\ Len(Val(loc[t].payload).ops) = 1

\* Task t takes this step: it resumes from an await or starts a call.
Moves(t) ==
    /\ pc[t] # "idle" \/ calls' # calls
    /\ \A u \in Tasks \ {t} : pc'[u] = pc[u] /\ loc'[u] = loc[u]

\* C11: the step in which LazyGuildDispatcher.unsub unsubscribes session s
\* from the store of the channel removes the entry of s, leaves the ranges
\* of the other sessions as they were, leaves the roster as it was when a
\* session remains and resets it to empty when none remains, and leaves the
\* channel registered with the same store; without an entry for s the call
\* raises nothing.
C11_UnsubEvicts ==
    [][\A t \in Tasks :
          (Moves(t) /\ loc'[t].op = "unsub" /\ pc'[t] = "idle"
              /\ loc'[t].err # "guild_from_channel") =>
              LET o == loc'[t].self
                  sid == loc'[t].session_id
                  c == loc'[t].channel_id
                  before == IF o \in GmlIds THEN gmls[o]
                            ELSE [state |-> <<>>, list |-> EmptyList]
                  after == gmls'[o]
              IN  /\ loc'[t].err = "none"
                  /\ sid \notin DictKeys(after.state)
                  /\ \A s \in Sessions \ {sid} :
                        /\ s \in DictKeys(after.state)
                              <=> s \in DictKeys(before.state)
                        /\ DictGet(after.state, s) = DictGet(before.state, s)
                  /\ IF DictKeys(after.state) # {}
                     THEN after.list = before.list
                     ELSE after.list = EmptyList
                  /\ c \in DOMAIN lazy_guild'.state
                  /\ lazy_guild'.state[c] = o
                  /\ c \in DOMAIN lazy_guild.state
                        => lazy_guild.state[c] = o]_vars

\* The last session of a store with a roster was unsubscribed.
C11_Witness ==
    \E t \in Tasks :
        /\ loc[t].op = "unsub" /\ loc[t].done /\ loc[t].err = "none"
        /\ ~IsNone(loc[t].popped) /\ Val(loc[t].popped) # {}
        /\ ~IsNone(loc[t].dropped) /\ ListBool(Val(loc[t].dropped))
        /\ gmls[loc[t].self].list = EmptyList
        /\ lazy_guild.state[loc[t].channel_id] = loc[t].self

\* C12: a roster built by a shard_query after the unsubscription of the
\* last session dropped the roster of the store has the group list, the
\* buckets and the flat sequence of the roster that was dropped (the data
\* of the guild never changes in SpecRound).
C12_RoundTrip ==
    \A t \in Tasks, u \in Tasks :
        (/\ loc[u].op = "unsub" /\ ~IsNone(loc[u].dropped)
         /\ Val(loc[u].dropped) # EmptyList
         /\ loc[t].op = "shard_query" /\ loc[t].built
         /\ loc[t].self = loc[u].self
         /\ ListBool(gmls[loc[t].self].list)) =>
            LET old == Val(loc[u].dropped)
                new == gmls[loc[t].self].list
            IN  /\ new.groups = old.groups
                /\ new.data = old.data
                /\ Items(new) = Items(old)

\* C13: a pres_update for a user who is in no bucket of a store whose list
\* is initialized returns at once without raising, dispatches nothing and
\* leaves the stores (group list, buckets and recorded ranges) as they were.
C13_UnknownMemberDropped ==
    [][\A t \in Tasks, o \in GmlIds :
          (/\ Moves(t) /\ pc[t] = "idle"
           /\ loc'[t].op = "pres_update" /\ loc'[t].self = o
           /\ ListBool(gmls[o].list)
           /\ PlacesOf(o, loc'[t].user_id) = {}) =>
              /\ pc'[t] = "idle" /\ loc'[t].done /\ loc'[t].err = "none"
              /\ loc'[t].dispatched = <<>> /\ IsNone(loc'[t].payload)
              /\ gmls' = gmls]_vars

\* A pres_update for a user of no bucket returned on a store with members
\* and a session that has recorded ranges.
C13_Witness ==
    \E t \in Tasks :
        /\ loc[t].op = "pres_update" /\ loc[t].done /\ ~loc[t].built
        /\ ListBool(gmls[loc[t].self].list)
        /\ PlacesOf(loc[t].self, loc[t].user_id) = {}
        /\ \E m \in Members : PlacesOf(loc[t].self, m) # {}
        /\ \E sid \in DictKeys(gmls[loc[t].self].state) :
              DictGet(gmls[loc[t].self].state, sid) # {}

\* C14: when pres_update(U, partial) has run on a store that holds U, the
\* record of U in its bucket has every field of partial, and the call has
\* emitted one UPDATE that carries the flat index of U and the merged record
\* as its item; this for U at any position of its bucket, the first
\* included.
C14_MergeReported ==
    \A t \in Tasks :
        (/\ loc[t].op = "pres_update"
         /\ pc[t] = "ws_dispatch" \/ (loc[t].done /\ loc[t].err = "none")
         /\ ListBool(gmls[loc[t].self].list)
         /\ PlacesOf(loc[t].self, loc[t].user_id) # {}) =>
            LET o == loc[t].self
                data == Val(gmls[o].list.data)
                flat == Items(gmls[o].list)
            IN  /\ \A place \in PlacesOf(o, loc[t].user_id) :
                      LET record == data[place[1]][place[2]]
                      IN  /\ \A f \in DOMAIN loc[t].partial :
                                record[f] = loc[t].partial[f]
                          /\ ~IsNone(loc[t].payload)
                          /\ LET ops == Val(loc[t].payload).ops
                             IN  /\ Len(ops) = 1
                                 /\ ops[1].op = "UPDATE"
                                 /\ flat[ops[1].index + 1] = [member |-> record]
                                 /\ ops[1].item = [member |-> record]

\* The sessions pres_update has delivered the UPDATE to.
Served(t) ==
    ToSet(loc[t].dispatched)
        \cup (IF pc[t] = "ws_dispatch" THEN {loc[t].cur} ELSE {})

\* C15: a pres_update that has located its member raises nothing, whether
\* or not the state manager still resolves the sessions in range and
\* whether or not a transport dispatch fails, and once it has returned
\* every session in range that the state manager resolves has been sent the
\* UPDATE.
C15_StaleFailsSoft ==
    \A t \in Tasks :
        (loc[t].op = "pres_update" /\ loc[t].done
            /\ ~IsNone(loc[t].payload)) =>
            /\ loc[t].err = "none"
            /\ \A sid \in Watching(loc[t].self, Val(loc[t].item_index)) :
                  sid \in state_man => sid \in Served(t)

\* The sessions the dispatch that task t finishes in this step had yet to
\* look up: the session of the shard_query, or the sessions with a range
\* that holds the index of the UPDATE, less those already served.
Pending(t) ==
    IF pc[t] = "ws_dispatch"
    THEN IF loc'[t].op = "shard_query" THEN {}
         ELSE Watching(loc'[t].self, Val(loc'[t].item_index)) \ Served(t)
    ELSE IF loc'[t].op = "shard_query" THEN {loc'[t].session_id}
         ELSE Watching(loc'[t].self, Val(loc'[t].item_index))

\* C16: when the dispatch of a shard_query or of a pres_update ends, every
\* session it had yet to look up and that the state manager does not
\* resolve has no entry left in the store and is not among the dispatched
\* sessions, the ranges of the sessions it resolves are as before, and the
\* roster is empty if the removal leaves no entry.
C16_StaleUnsubscribed ==
    [][\A t \in Tasks :
          (/\ Moves(t) /\ pc'[t] = "idle"
           /\ loc'[t].op \in {"shard_query", "pres_update"}
           /\ ~IsNone(loc'[t].payload)
           /\ loc'[t].err \in {"none", "RuntimeError:502"}) =>
              LET o == loc'[t].self
                  after == gmls'[o].state
              IN  /\ \A sid \in Pending(t) \ state_man :
                        /\ sid \notin DictKeys(after)
                        /\ sid \notin ToSet(loc'[t].dispatched)
                  /\ \A sid \in DictKeys(gmls[o].state) \cap state_man :
                        /\ sid \in DictKeys(after)
                        /\ DictGet(gmls[o].state, sid) \subseteq
                              DictGet(after, sid)
                  /\ (Pending(t) \ state_man # {} /\ after = <<>>)
                        => gmls'[o].list = EmptyList]_vars

\* C17: when dispatch has returned from a member update event on a store
\* with an initialized list and recorded ranges, it has emitted a DELETE
\* followed by an INSERT whose payload carries the sizes of the buckets as
\* group counts.
C17_MemberMoveDispatched ==
    \A t \in Tasks :
        (/\ loc[t].op = "dispatch" /\ loc[t].done
         /\ loc[t].event = "GUILD_MEMBER_UPDATE"
         /\ ListBool(gmls[loc[t].self].list)
         /\ gmls[loc[t].self].state # <<>>) =>
            /\ ~IsNone(loc[t].payload)
            /\ LET payload == Val(loc[t].payload)
                   data == Val(gmls[loc[t].self].list.data)
               IN  /\ Len(payload.ops) = 2
                   /\ payload.ops[1].op = "DELETE"
                   /\ payload.ops[2].op = "INSERT"
                   /\ \A k \in 1..Len(payload.groups) :
                         payload.groups[k].count =
                             Len(data[payload.groups[k].id])

\* C18: when dispatch has returned from a channel update event on a store
\* with an initialized list and recorded ranges, it has emitted an
\* INVALIDATE whose range covers the flat sequence, to every session of the
\* store.
C18_BulkInvalidate ==
    \A t \in Tasks :
        (/\ loc[t].op = "dispatch" /\ loc[t].done
         /\ loc[t].event = "CHANNEL_UPDATE"
         /\ ListBool(gmls[loc[t].self].list)
         /\ gmls[loc[t].self].state # <<>>) =>
            /\ ~IsNone(loc[t].payload)
            /\ LET payload == Val(loc[t].payload)
                   flat == Items(gmls[loc[t].self].list)
               IN  /\ Len(payload.ops) = 1
                   /\ payload.ops[1].op = "INVALIDATE"
                   /\ payload.ops[1].range[1] = 0
                   /\ payload.ops[1].range[2] >= Len(flat)
            /\ DictKeys(gmls[loc[t].self].state) \cap state_man
                  \subseteq ToSet(loc[t].dispatched)

\* role_permissions grants everyone read_messages on channel c.
Public(c) == storage.everyone_perms[c] = READ_MESSAGES

\* The store that answers a shard_query made on channel c: the store the
\* registry holds for the guild when everyone can read c and the list of c
\* is not the 'everyone' list, else the store the registry holds for c.
Answering(c) ==
    LET gml == gmls[lazy_guild.state[c]]
        answers == IF Public(c) /\ gml.channel_id # gml.guild_id
                   THEN gml.guild_id ELSE c
    IN  IF answers \in DOMAIN lazy_guild.state
        THEN lazy_guild.state[answers] ELSE 0

\* C19: a shard_query made on a store that is not the 'everyone' store and
\* whose channel everyone can read is answered by the store get_gml returns
\* for the guild: the ranges are recorded there, the payload has the id
\* 'everyone', and the store the call was made on keeps an empty roster and
\* no recorded range.  Any other shard_query is answered by the store it was
\* made on.
C19_RedirectToEveryone ==
    /\ \A o \in GmlIds :
          (Public(gmls[o].channel_id)
              /\ gmls[o].channel_id # gmls[o].guild_id) =>
              gmls[o].list = EmptyList /\ gmls[o].state = <<>>
    /\ \A t \in Tasks :
          (loc[t].op = "shard_query"
              /\ pc[t] \in BuildAwaits \cup {"ws_dispatch"}) =>
              /\ loc[t].self = Answering(loc[t].channel_id)
              /\ pc[t] = "ws_dispatch" =>
                    LET gml == gmls[loc[t].self]
                    IN  /\ Val(loc[t].payload).id =
                              IF gml.channel_id = gml.guild_id
                              THEN "everyone" ELSE ToString(gml.channel_id)
                        /\ \A k \in 1..Len(loc[t].ranges) :
                              loc[t].ranges[k][1] <= loc[t].ranges[k][2] =>
                                  loc[t].ranges[k] \in
                                      DictGet(gml.state, loc[t].session_id)

\* A shard_query made on channel 2 is being answered by the 'everyone'
\* store.
C19_Witness ==
    \E t \in Tasks :
        /\ loc[t].op = "shard_query" /\ pc[t] = "ws_dispatch"
        /\ loc[t].channel_id = 2 /\ Public(2)
        /\ Val(loc[t].payload).id = "everyone"
        /\ gmls[loc[t].self].channel_id = GuildId
        /\ DictGet(gmls[loc[t].self].state, loc[t].session_id) # {}
        /\ Val(loc[t].payload).ops[1].items # <<>>

\* C20: whatever the interleaving of the get_gml calls for one channel, the
\* callers hold the same store, the registry holds that store for the
\* channel, and the channel id is at most once in the channel list of its
\* guild.
C20_SingleFlight ==
    /\ \A t \in Tasks, u \in Tasks :
          (/\ loc[t].self \in GmlIds /\ loc[u].self \in GmlIds
           /\ loc[t].redirects = 0 /\ loc[u].redirects = 0
           /\ loc[t].channel_id = loc[u].channel_id) =>
              loc[t].self = loc[u].self
    /\ \A t \in Tasks :
          (loc[t].self \in GmlIds /\ loc[t].redirects = 0
              /\ loc[t].channel_id # 0) =>
              lazy_guild.state[loc[t].channel_id] = loc[t].self
    /\ \A g \in DOMAIN lazy_guild.guild_map :
          \A j \in 1..Len(lazy_guild.guild_map[g]) :
              \A k \in 1..Len(lazy_guild.guild_map[g]) :
                  lazy_guild.guild_map[g][j] = lazy_guild.guild_map[g][k]
                      => j = k

\* C21: a shard_query dispatches one message at most, to the session that
\* queries and to no other session of the store, and the ops of the message
\* are one SYNC for each range of the request with end >= start, in the
\* order of the request.
C21_SubscribeDispatch ==
    \A t \in Tasks :
        (loc[t].op = "shard_query" /\ ~IsNone(loc[t].payload)) =>
            LET sid == loc[t].session_id
                asked == SelectSeq(loc[t].ranges, LAMBDA r : r[1] <= r[2])
                ops == Val(loc[t].payload).ops
            IN  /\ pc[t] \in {"ws_dispatch", "idle"}
                /\ Served(t) \subseteq {sid}
                /\ Len(loc[t].dispatched) <= 1
                /\ pc[t] = "ws_dispatch" => loc[t].dispatched = <<>>
                /\ (loc[t].done /\ loc[t].err = "none") =>
                      \/ loc[t].dispatched = <<sid>>
                      \/ loc[t].dispatched = <<>> /\ sid \notin state_man
                /\ Len(ops) = Len(asked)
                /\ \A k \in 1..Len(ops) :
                      /\ ops[k].op = "SYNC"
                      /\ ops[k].range = asked[k]

\* A request of two valid ranges is being answered to s1 while s2 has
\* recorded ranges in the store.
C21_Witness ==
    \E t \in Tasks :
        /\ loc[t].op = "shard_query" /\ pc[t] = "ws_dispatch"
        /\ loc[t].cur = "s1"
        /\ "s2" \in DictKeys(gmls[loc[t].self].state)
        /\ Len(Val(loc[t].payload).ops) = 2
        /\ Val(loc[t].payload).ops[1].range # Val(loc[t].payload).ops[2].range

\* The keys of the dict of each kind of operation, op apart.
WireKeys(list_op) ==
    CASE list_op = "SYNC" -> {"range", "items"}
      [] list_op = "INVALIDATE" -> {"range"}
      [] list_op \in {"INSERT", "UPDATE"} -> {"index", "item"}
      [] list_op = "DELETE" -> {"index"}

\* C22: the dict of an operation has the key op with the tag of the
\* operation and the keys of its kind with the values of the params of the
\* same name, and no other key.
C22_WireShape ==
    \A t \in Tasks :
        loc[t].op = "to_dict" =>
            LET operation == Val(loc[t].payload).operation
                res == Val(loc[t].payload).res
            IN  /\ DOMAIN res = {"op"} \cup WireKeys(operation.list_op)
                /\ res.op = operation.list_op
                /\ \A key \in WireKeys(operation.list_op) :
                      res[key] = operation.params[key]

\* The dict of a DELETE was made.
C22_Witness ==
    \E t \in Tasks :
        /\ loc[t].op = "to_dict"
        /\ Val(loc[t].payload).operation.list_op = "DELETE"
        /\ Val(loc[t].payload).res.index = NMembers

\* C23: when no call is in progress, a store without a session that has
\* recorded ranges holds the empty roster.
C23_RosterLifecycle ==
    (\A t \in Tasks : pc[t] = "idle") =>
        \A o \in GmlIds :
            (\A sid \in DictKeys(gmls[o].state) :
                DictGet(gmls[o].state, sid) = {}) =>
                gmls[o].list = EmptyList

\* The exceptions the code of a build raises by itself.
BuildErrors ==
    {"AttributeError:309", "TypeError:173", "AttributeError:173",
     "TypeError:273", "KeyError:273", "AttributeError:284"}

\* Role row is hoisted and can read channel c: the overwrite of the channel
\* for the role allows read_messages, or the role has it and the overwrite
\* does not deny it.
IsGroup(row, c) ==
    /\ row.hoist
    /\ LET ov == storage.chan_overwrites[c]
       IN  IF row.id \in DOMAIN ov
           THEN \/ ov[row.id].allow = READ_MESSAGES
                \/ row.permissions = READ_MESSAGES
                      /\ ov[row.id].deny # READ_MESSAGES
           ELSE row.permissions = READ_MESSAGES

\* The group of the member with presence p in the list of channel c.
GroupOf(p, c) ==
    LET mine == {k \in 1..Len(storage.roles) :
                    /\ IsGroup(storage.roles[k], c)
                    /\ storage.roles[k].id \in p.roles}
    IN  IF p.status = "offline" THEN "offline"
        ELSE IF mine = {} THEN "online"
        ELSE storage.roles[CHOOSE k \in mine : \A j \in mine :
                              storage.roles[k].position
                                  <= storage.roles[j].position].id

\* C24: when a build has run to its end or to an exception of its own
\* code, every member who can read the channel is in the bucket of its
\* group: offline when its status is offline, else the first hoisted group
\* among its roles that can read the channel, else online.
C24_GroupAssignment ==
    \A t \in Tasks :
        (loc[t].op = "shard_query" /\ loc[t].done
            /\ (loc[t].built \/ loc[t].err \in BuildErrors)) =>
            LET o == loc[t].self
                data == gmls[o].list.data
            IN  /\ ~IsNone(data)
                /\ \A m \in Members :
                      MayRead(o, m) =>
                          LET gid == GroupOf(presence[m], gmls[o].channel_id)
                          IN  /\ gid \in DOMAIN Val(data)
                              /\ \E k \in 1..Len(Val(data)[gid]) :
                                    Val(data)[gid][k].user.id = m

\* The id an entry of the group list stands for.
EntryId(entry) == IF "gid" \in DOMAIN entry THEN entry.gid ELSE entry.role_id

\* C25: the group list of a store, once set, holds before online and
\* offline one entry for each role that is hoisted and can read the
\* channel, by ascending position, and no entry for a role that is not
\* hoisted or that the overwrite of the channel denies read_messages.
C25_GroupFiltering ==
    \A o \in GmlIds :
        ~IsNone(gmls[o].list.groups) =>
            LET groups == Val(gmls[o].list.groups)
                n == Len(groups)
                kept == {k \in 1..Len(storage.roles) :
                            IsGroup(storage.roles[k], gmls[o].channel_id)}
            IN  /\ n = Cardinality(kept) + 2
                /\ EntryId(groups[n - 1]) = "online"
                /\ EntryId(groups[n]) = "offline"
                /\ {EntryId(groups[k]) : k \in 1..(n - 2)} =
                      {storage.roles[k].id : k \in kept}
                /\ \A j \in kept, k \in kept :
                      (storage.roles[j].position < storage.roles[k].position
                          /\ n = 4) =>
                          /\ EntryId(groups[1]) = storage.roles[j].id
                          /\ EntryId(groups[2]) = storage.roles[k].id

\* Two hoisted roles at positions 1 and 2, the channel denies the first
\* read_messages: the group list is the second role, online, offline.
C25_Witness ==
    \E o \in GmlIds :
        /\ storage.roles[1].hoist /\ storage.roles[2].hoist
        /\ storage.roles[1].permissions = READ_MESSAGES
        /\ "r1" \in DOMAIN storage.chan_overwrites[gmls[o].channel_id]
        /\ storage.chan_overwrites[gmls[o].channel_id]["r1"].deny
              = READ_MESSAGES
        /\ ~IsNone(gmls[o].list.groups)
        /\ Len(Val(gmls[o].list.groups)) = 3
        /\ EntryId(Val(gmls[o].list.groups)[1]) = "r2"

\* The stores of the registry that belong to guild g.
RegisteredFor(g) ==
    {lazy_guild.state[c] : c \in {c \in DOMAIN lazy_guild.state :
                                     gmls[lazy_guild.state[c]].guild_id = g}}

\* C26: every channel listed under a guild has a store in the registry that
\* is the store of that channel and of that guild, the guild being the one
\* the storage finds for the channel or the channel itself; every channel
\* of the registry is listed under the guild of its store and under no
\* other; and get_gml_guild returns for a guild the stores of the registry
\* that belong to it, none of them missing.
C26_RegistryConsistent ==
    /\ \A g \in DOMAIN lazy_guild.guild_map :
          \A k \in 1..Len(lazy_guild.guild_map[g]) :
              LET c == lazy_guild.guild_map[g][k]
              IN  /\ c \in DOMAIN lazy_guild.state
                  /\ gmls[lazy_guild.state[c]].channel_id = c
                  /\ gmls[lazy_guild.state[c]].guild_id = g
                  /\ g = IF storage.guild_from_channel[c] = None THEN c
                         ELSE storage.guild_from_channel[c][1]
    /\ \A c \in DOMAIN lazy_guild.state :
          \A g \in DOMAIN lazy_guild.guild_map :
              (\E k \in 1..Len(lazy_guild.guild_map[g]) :
                  lazy_guild.guild_map[g][k] = c)
                  <=> g = gmls[lazy_guild.state[c]].guild_id
    /\ \A g \in DOMAIN lazy_guild.guild_map :
          /\ ToSet(GetGmlGuild(g)) = RegisteredFor(g)
          /\ 0 \notin ToSet(GetGmlGuild(g))

\* The store of channel 2 and the 'everyone' store are registered, each
\* under its guild: guild 1 lists both channels.
C26_Witness ==
    /\ DOMAIN lazy_guild.state = {1, 2}
    /\ Cardinality(RegisteredFor(GuildId)) = 2
    /\ Len(lazy_guild.guild_map[GuildId]) = 2
    /\ \E t \in Tasks : loc[t].op = "unsub" /\ loc[t].done

\* Task t takes a step of a pres_update on a store whose list is
\* initialized: the call starts, or it resumes from a transport dispatch.
PresUpdateStep(t) ==
    /\ Moves(t)
    /\ loc'[t].op = "pres_update"
    /\ \/ pc[t] = "ws_dispatch"
       \/ pc[t] = "idle" /\ ListBool(gmls[loc'[t].self].list)

\* The step leaves the group list of store o, the members of every bucket
\* and their order, and every record but that of user_id as they were.
SameRoster(o, user_id) ==
    LET old == gmls[o].list
        new == gmls'[o].list
    IN  /\ new.groups = old.groups
        /\ IsNone(new.data) = IsNone(old.data)
        /\ ~IsNone(old.data) =>
              /\ DOMAIN Val(new.data) = DOMAIN Val(old.data)
              /\ \A gid \in DOMAIN Val(old.data) :
                    /\ Len(Val(new.data)[gid]) = Len(Val(old.data)[gid])
                    /\ \A k \in 1..Len(Val(old.data)[gid]) :
                          LET p == Val(old.data)[gid][k]
                              q == Val(new.data)[gid][k]
                          IN  /\ q.user = p.user
                              /\ p.user.id # user_id => q = p

\* The step leaves the ranges of the sessions of store o that the state
\* manager resolves as they were.
SameRanges(o) ==
    \A sid \in DictKeys(gmls[o].state) \cap state_man :
        /\ sid \in DictKeys(gmls'[o].state)
        /\ DictGet(gmls'[o].state, sid) = DictGet(gmls[o].state, sid)

\* C27 as stated: a pres_update on an initialized list changes nothing but
\* fields of the record of its user: the group list, the members, order
\* and size of every bucket and the ranges of the resolvable sessions are
\* the same after every step of the call.
C27_PresUpdateFrame ==
    [][\A t \in Tasks :
          PresUpdateStep(t) =>
              /\ SameRoster(loc'[t].self, loc'[t].user_id)
              /\ SameRanges(loc'[t].self)]_vars

\* C27 amended: the same, unless the step unsubscribes the last session of
\* the store because the state manager does not resolve it; the roster is
\* then reset to empty.
C27_FrameUnlessEvicted ==
    [][\A t \in Tasks :
          PresUpdateStep(t) =>
              LET o == loc'[t].self
              IN  /\ SameRanges(o)
                  /\ IF gmls[o].state # <<>> /\ gmls'[o].state = <<>>
                     THEN /\ gmls'[o].list = EmptyList
                          /\ DictKeys(gmls[o].state) \cap state_man = {}
                     ELSE SameRoster(o, loc'[t].user_id)]_vars

\* A pres_update on an initialized list has merged a new status into the
\* record of a member who is not the first of its bucket, with a session
\* subscribed.
C27_Witness ==
    \E t \in Tasks :
        /\ loc[t].op = "pres_update" /\ loc[t].done /\ ~loc[t].built
        /\ gmls[loc[t].self].state # <<>>
        /\ ListBool(gmls[loc[t].self].list)
        /\ \E place \in PlacesOf(loc[t].self, loc[t].user_id) :
              /\ place[2] > 1
              /\ Val(gmls[loc[t].self].list.data)[place[1]][place[2]].status
                    # presence[loc[t].user_id].status

\* The builds of tasks t and u on store o have both run to completion.
BothBuilt(o, t, u) ==
    /\ t # u
    /\ loc[t].self = o /\ loc[u].self = o
    /\ loc[t].op = "shard_query" /\ loc[u].op = "shard_query"
    /\ loc[t].built /\ loc[u].built

\* The list of store o is the list one build makes: every member that can
\* read the channel is at one place, a member that cannot is at none, the
\* place is in the bucket of the member's status and the buckets are
\* sorted.
SingleBuildRoster(o) ==
    LET list == gmls[o].list
    IN  /\ ListBool(list)
        /\ \A m \in Members :
              /\ Cardinality(PlacesOf(o, m)) = IF MayRead(o, m) THEN 1 ELSE 0
              /\ \A place \in PlacesOf(o, m) :
                    place[1] = IF presence[m].status = "offline"
                               THEN "offline" ELSE "online"
        /\ Val(list.data) = SortGroups(Val(list.data), storage.member_data)

\* C28: once two shard_query calls that both built the list of one store
\* have completed their builds, in whatever interleaving, the list is the
\* list a single build makes: no member is twice in a bucket or in two
\* buckets and no member that can read the channel is missing.
C28_ConcurrentBuilds ==
    \A o \in GmlIds : \A t \in Tasks, u \in Tasks :
        BothBuilt(o, t, u) => SingleBuildRoster(o)

\* Task u is suspended inside _pass_1 or _sort_groups of a build of store o.
MidBuild(o, u) ==
    /\ loc[u].self = o
    /\ pc[u] \in {"get_permissions", "get_member_data"}

\* C29: a step in which a task makes the payload of a dispatch from the
\* list of a store is never taken while another task is suspended inside
\* _pass_1 or _sort_groups of a build of that store; the items and group
\* counts dispatched are those of a list whose build has completed.
C29_NoUnfinishedSync ==
    [][\A t \in Tasks :
          (/\ Moves(t)
           /\ pc[t] # "ws_dispatch" /\ pc'[t] = "ws_dispatch"
           /\ ~IsNone(loc'[t].payload)) =>
              \A u \in Tasks \ {t} : ~MidBuild(loc'[t].self, u)]_vars

\* The unsub of task u found no other session on its store and reset a
\* list that a build had begun to fill.
ResetMidBuild(u) ==
    /\ loc[u].op = "unsub" /\ loc[u].done
    /\ ~IsNone(loc[u].dropped)
    /\ ~IsNone(Val(loc[u].dropped).data)

\* C30: when an unsub has reset the list of a store that the build of
\* another task's shard_query had begun to fill, the shard_query, once it
\* is over, has raised no exception of the build's own code, and the list
\* of the store is empty or the list of one complete build.
C30_UnsubDuringBuild ==
    \A t \in Tasks : \A u \in Tasks \ {t} :
        (/\ ResetMidBuild(u)
         /\ loc[t].op = "shard_query" /\ loc[t].self = loc[u].self
         /\ pc[t] = "idle" /\ loc[t].done) =>
            /\ loc[t].err \notin BuildErrors
            /\ \/ gmls[loc[t].self].list = EmptyList
               \/ SingleBuildRoster(loc[t].self)

\* C31: after LazyGuildDispatcher.unsub(C, session) has returned, for a
\* session that subscribed by shard_query on channel C, no store of the
\* registry holds recorded ranges for the session, also when the
\* shard_query was redirected to the 'everyone' store.
C31_UnsubUndoesSub ==
    \A t \in Tasks :
        (loc[t].op = "unsub" /\ pc[t] = "idle" /\ loc[t].done
            /\ loc[t].err = "none") =>
            \A o \in GmlIds :
                loc[t].session_id \notin DictKeys(gmls[o].state)

\* Task t takes the step of a shard_query that runs lines 445-461: the
\* list is initialized and the ranges of the request are recorded.
RecordsRanges(t) ==
    /\ Moves(t)
    /\ loc'[t].op = "shard_query"
    /\ pc[t] \in {"role_permissions", "get_member_data"}
    /\ \/ pc'[t] = "ws_dispatch"
       \/ pc'[t] = "idle" /\ loc'[t].err = "none"

\* The ranges (start, end) of a request with end >= start.
Requested(ranges) ==
    {ranges[k] : k \in {j \in 1..Len(ranges) : ranges[j][1] <= ranges[j][2]}}

\* C32: the step of a shard_query that records the request of a session
\* the state manager resolves leaves the session with its earlier ranges
\* and the ranges (start, end) of the request with end >= start, as one
\* set, and leaves the other sessions of the store as they were; and no
\* step takes a range from a session that stays subscribed.
C32_RangesAccumulate ==
    [][/\ \A t \in Tasks :
             (RecordsRanges(t) /\ loc'[t].session_id \in state_man) =>
                 LET o == loc'[t].self
                     sid == loc'[t].session_id
                 IN  /\ DictGet(gmls'[o].state, sid) =
                           DictGet(gmls[o].state, sid)
                               \cup Requested(loc'[t].ranges)
                     /\ \A other \in Sessions \ {sid} :
                           DictGet(gmls'[o].state, other) =
                               DictGet(gmls[o].state, other)
       /\ \A o \in GmlIds : \A sid \in DictKeys(gmls[o].state) :
             sid \in DictKeys(gmls'[o].state) =>
                 DictGet(gmls[o].state, sid)
                     \subseteq DictGet(gmls'[o].state, sid)]_vars

\* A session holds two ranges that overlap, recorded by two requests, the
\* later of which asked again for a range the session held.
C32_Witness ==
    \E t \in Tasks :
        /\ loc[t].op = "shard_query" /\ loc[t].done /\ loc[t].err = "none"
        /\ ~loc[t].built
        /\ Len(loc[t].ranges) = 1
        /\ LET held == DictGet(gmls[loc[t].self].state, loc[t].session_id)
           IN  /\ Requested(loc[t].ranges) \subseteq held
               /\ Cardinality(held) = 2
               /\ \E r \in held, q \in held :
                     r # q /\ r[1] < q[2] /\ q[1] < r[2]

\* C33: no shard_query is redirected more than once, and every shard_query
\* that has been called leads to the dispatch of its message to the
\* session that made it.
C33_RedirectTerminates ==
    /\ [](\A t \in Tasks : loc[t].redirects <= 1)
    /\ \A t \in Tasks :
          (loc[t].op = "shard_query" /\ pc[t] # "idle")
              ~> (loc[t].op = "shard_query"
                     /\ loc[t].dispatched = <<loc[t].session_id>>)

\* C34: in every initialized list a presence record is in the 'offline'
\* bucket if and only if its status is 'offline', also after a pres_update
\* whose partial presence changes the status to or from 'offline'.
C34_StatusMatchesBucket ==
    \A o \in GmlIds :
        ListBool(gmls[o].list) =>
            LET data == Val(gmls[o].list.data)
            IN  \A gid \in DOMAIN data : \A k \in 1..Len(data[gid]) :
                    (gid = "offline") <=> (data[gid][k].status = "offline")

=============================================================================
